---- MODULE Spec2Model ----
(***************************************************************************)
(* A model of gotabulate (src/tabulate.go): the width calculator           *)
(* (getWidths), the autosizer (autoSize), the cell wrapper (wrapCellData)  *)
(* and the renderer (Render) with its setters.                             *)
(*                                                                         *)
(* A string is a sequence of glyphs.  Four glyphs stand for the classes    *)
(* the code distinguishes: "a" (one byte, one column), " " (the word       *)
(* separator), "\n" (one byte, no column) and "W" (a wide glyph: three     *)
(* bytes, two columns).                                                    *)
(***************************************************************************)
EXTENDS Integers, Sequences, FiniteSets, TLC

VARIABLES
    \* wrapCellData in progress: its receiver, its argument, its locals, and
    \* where it stands; pass counts the calls of Render on the table
    t, cols, index, next, arr, pc, pass,
    \* a call of getWidths or autoSize: its inputs and what it returned
    args, result,
    \* the tables of a program, the package variable MIN_PADDING, what the
    \* last Render of each table returned, and the calls made so far
    tabs, MIN_PADDING, out, ops

wrapVars == <<t, cols, index, next, arr, pc, pass>>
callVars == <<args, result>>
renderVars == <<tabs, MIN_PADDING, out, ops>>
vars == <<wrapVars, callVars, renderVars>>

-----------------------------------------------------------------------------
(* Bounds of the model *)

\* glyphs in a table, and the largest capacity of a column
MaxGlyphs == 3
MaxCap == 2

\* getWidths: header labels, rows, cells in a row, glyphs in a cell
MaxHeaders == 2
MaxDataRows == 2
MaxCells == 2
MaxCellLen == 1

\* autoSize: columns, the natural width of a column, the terminal width
MaxAutoCols == 3
MaxNatural == 4
MaxTerm == 16

\* calls made on the tables of a program
MaxOps == 4

\* the shapes of the tables: <<rows, cells per row>>
Shapes == {<<1, 1>>, <<1, 2>>, <<2, 1>>, <<3, 1>>}

\* MIN_PADDING as declared, and as SetAutoSize sets it
MinPaddingInitial == 5
MinPaddingAutoSize == 2

\* what a call has returned: nothing yet
NoResult == [done |-> FALSE, panic |-> FALSE, value |-> <<>>]

-----------------------------------------------------------------------------
(* Strings *)

SP == " "
NL == "\n"
Wide == "W"
Glyphs == {"a", SP, NL, Wide}

\* runewidth.RuneWidth: 2 for a wide glyph, 0 for a control character
RuneWidth(g) == IF g = Wide THEN 2 ELSE IF g = NL THEN 0 ELSE 1

\* bytes of the UTF-8 encoding of a glyph
RuneBytes(g) == IF g = Wide THEN 3 ELSE 1

RECURSIVE StringWidth(_)
StringWidth(s) == IF s = <<>> THEN 0 ELSE RuneWidth(Head(s)) + StringWidth(Tail(s))

RECURSIVE ByteLen(_)
ByteLen(s) == IF s = <<>> THEN 0 ELSE RuneBytes(Head(s)) + ByteLen(Tail(s))

\* position (1-based, in glyphs) of the first / last occurrence of g in s, 0 if none
FirstPos(s, g) ==
    IF \E k \in 1..Len(s) : s[k] = g
    THEN CHOOSE k \in 1..Len(s) : s[k] = g /\ \A j \in 1..(k-1) : s[j] # g
    ELSE 0

LastPos(s, g) ==
    IF \E k \in 1..Len(s) : s[k] = g
    THEN CHOOSE k \in 1..Len(s) : s[k] = g /\ \A j \in (k+1)..Len(s) : s[j] # g
    ELSE 0

\* strings.Index(e, "\n"): a byte offset, -1 if there is no newline
NewlineIndex(e) ==
    IF FirstPos(e, NL) = 0 THEN -1 ELSE ByteLen(SubSeq(e, 1, FirstPos(e, NL) - 1))

\* runewidth.Truncate(s, w, ""): s if it fits, else the glyphs before the
\* first one that would make the width exceed w
RECURSIVE TruncLen(_, _, _)
TruncLen(s, k, room) ==
    IF k > Len(s) \/ RuneWidth(s[k]) > room THEN k - 1
    ELSE TruncLen(s, k + 1, room - RuneWidth(s[k]))

Truncate(s, w) ==
    IF StringWidth(s) <= w THEN s ELSE SubSeq(s, 1, TruncLen(s, 1, w))

-----------------------------------------------------------------------------
(* wrapCellData *)

\* SplitCell measuring the cell in glyphs, as len([]rune(e)) would, where
\* the code measures it in columns
SplitCellByRunes(e, maxColWidth) ==
    LET newlineIndex == NewlineIndex(e)
        nl == FirstPos(e, NL)
        tr == SubSeq(e, 1, maxColWidth)
        lastWordStart == LastPos(tr, SP)
        hd == IF tr[Len(tr)] # SP /\ lastWordStart # 0
              THEN SubSeq(tr, 1, lastWordStart)
              ELSE tr
    IN  IF newlineIndex # -1 /\ newlineIndex < maxColWidth
        THEN [head |-> SubSeq(e, 1, nl - 1), rest |-> SubSeq(e, nl + 1, Len(e)),
              split |-> TRUE, panic |-> FALSE]
        ELSE IF Len(e) > maxColWidth
        THEN IF Len(tr) = 0
             THEN [head |-> tr, rest |-> e, split |-> TRUE, panic |-> TRUE]
             ELSE [head |-> hd, rest |-> SubSeq(e, Len(hd) + 1, Len(e)),
                   split |-> TRUE, panic |-> FALSE]
        ELSE [head |-> e, rest |-> <<>>, split |-> FALSE, panic |-> FALSE]

\* The body of the range loop for one cell e with capacity maxColWidth:
\* the head kept in elements[i], the remainder put in new_elements[i],
\* whether next.Continuous is set, and whether the slice expression
\* elements[i][len(elements[i])-1:] panics (empty truncation).
SplitCell(e, maxColWidth) ==
    LET newlineIndex == NewlineIndex(e)
        nl == FirstPos(e, NL)
        tr == Truncate(e, maxColWidth)
        lastWordStart == LastPos(tr, SP)
        hd == IF tr[Len(tr)] # SP /\ lastWordStart # 0
              THEN SubSeq(tr, 1, lastWordStart)
              ELSE tr
    IN  IF newlineIndex # -1 /\ newlineIndex < maxColWidth
        THEN [head |-> SubSeq(e, 1, nl - 1), rest |-> SubSeq(e, nl + 1, Len(e)),
              split |-> TRUE, panic |-> FALSE]
        ELSE IF StringWidth(e) > maxColWidth
        THEN IF Len(tr) = 0
             THEN [head |-> tr, rest |-> e, split |-> TRUE, panic |-> TRUE]
             ELSE [head |-> hd, rest |-> SubSeq(e, Len(hd) + 1, Len(e)),
                   split |-> TRUE, panic |-> FALSE]
        ELSE [head |-> e, rest |-> <<>>, split |-> FALSE, panic |-> FALSE]

\* maxColWidth of cell i: t.MaxSize, or cols[i] under AutoSize
MaxColWidth(tab, cs, i) == IF tab.AutoSize THEN cs[i] ELSE tab.MaxSize

\* cols[i] is an index out of range
ColsPanic(tab, cs, row) == tab.AutoSize /\ Len(row.Elements) > Len(cs)

CellOf(tab, cs, row, i) == SplitCell(row.Elements[i], MaxColWidth(tab, cs, i))

\* Advance with the loop running while index < len(t.Data): the row in
\* hand when the last index is reached is never appended
AdvanceShortLoop(tab, st, done, rest) ==
    IF done.Continuous
    THEN [index |-> st.index, next |-> rest,
          arr |-> Append(st.arr, done), pc |-> "loop"]
    ELSE IF st.index + 1 < Len(tab.Data)
    THEN [index |-> st.index + 1, next |-> tab.Data[st.index + 2],
          arr |-> Append(st.arr, done), pc |-> "loop"]
    ELSE [index |-> Len(tab.Data) + 1, next |-> done, arr |-> st.arr, pc |-> "loop"]

\* Lines 478-487: what the loop does with the row once its cells are done.
\* st = [index, next, arr] is the loop state, done the row with its heads,
\* rest the row allocated for the remainders.  index-- followed by the
\* loop's index++ leaves index as it is.
Advance(tab, st, done, rest) ==
    IF done.Continuous
    THEN [index |-> st.index, next |-> rest,
          arr |-> Append(st.arr, done), pc |-> "loop"]
    ELSE IF st.index + 1 < Len(tab.Data)
    THEN [index |-> st.index + 1, next |-> tab.Data[st.index + 2],
          arr |-> Append(st.arr, done), pc |-> "loop"]
    ELSE IF st.index >= Len(tab.Data)
    THEN [index |-> st.index + 1, next |-> done,
          arr |-> Append(st.arr, done), pc |-> "loop"]
    ELSE [index |-> st.index + 1, next |-> done, arr |-> st.arr, pc |-> "loop"]

\* One iteration of the for loop of wrapCellData on the loop state
\* st = [index, next, arr].  A row carries two history labels next to the
\* fields of TabulateRow: src, the position in t.Data of the row it stems
\* from, and gen, the number of the wrapCellData call that allocated it
\* (0 for a row of the table as created).
WrapIter(tab, cs, st, call) ==
    LET row == st.next
        n == Len(row.Elements)
        cell == [i \in 1..n |-> CellOf(tab, cs, row, i)]
        panics == ColsPanic(tab, cs, row) \/ \E i \in 1..n : cell[i].panic
        elements == [i \in 1..n |-> cell[i].head]
        new_elements == [i \in 1..n |-> cell[i].rest]
        continuous == row.Continuous \/ \E i \in 1..n : cell[i].split
    IN  IF panics
        THEN [index |-> st.index, next |-> row, arr |-> st.arr, pc |-> "panic"]
        ELSE Advance(tab, st,
                     [row EXCEPT !.Elements = elements, !.Continuous = continuous],
                     [Elements |-> new_elements, Continuous |-> FALSE,
                      src |-> row.src, gen |-> call])

-----------------------------------------------------------------------------
(* getWidths *)

RECURSIVE WidthScan(_, _, _, _, _)
\* The inner loop of getWidths for column i, from row k on: widths[i] is
\* written only when a row has a cell in column i.
WidthScan(data, k, i, current_max, width) ==
    IF k > Len(data) THEN width
    ELSE IF Len(data[k].Elements) >= i
    THEN LET strLength == StringWidth(data[k].Elements[i])
         IN  IF strLength > current_max
             THEN WidthScan(data, k + 1, i, strLength, strLength)
             ELSE WidthScan(data, k + 1, i, current_max, current_max)
    ELSE WidthScan(data, k + 1, i, current_max, width)

\* widths starts as make([]int, len(headers)): all zero
getWidths(headers, data) ==
    [i \in 1..Len(headers) |-> WidthScan(data, 1, i, StringWidth(headers[i]), 0)]

-----------------------------------------------------------------------------
(* autoSize *)

\* Go leaves the conversion to int of a float64 that is NaN or infinite to
\* the implementation: amd64 yields the least int for all three, arm64
\* saturates and yields 0 for NaN.  An int is modelled with 31 bits, far
\* above every width of the model.
IntMax == 2^30 - 1
IntMin == -(2^30)

\* a + b in the ints, wrapping around
AddInt(a, b) ==
    IF a + b > IntMax THEN a + b - 2^31
    ELSE IF a + b < IntMin THEN a + b + 2^31
    ELSE a + b

Builds == {[nan |-> IntMin, pinf |-> IntMin, ninf |-> IntMin],
           [nan |-> 0, pinf |-> IntMax, ninf |-> IntMin]}

\* a / b rounded down, b # 0
FloorDiv(a, b) == IF b > 0 THEN a \div b ELSE (-a) \div (-b)

\* int(math.Floor(float64(c) * ratio)), the float64 ratio being num/den as
\* computed by a float64 division: infinite or NaN when den = 0.  (For the
\* widths of this model the float64 product rounds down to the same
\* integer as the exact one.)
FloorMul(c, ratio, build) ==
    IF ratio.den = 0
    THEN IF ratio.num = 0 \/ c = 0 THEN build.nan
         ELSE IF (ratio.num > 0) = (c > 0) THEN build.pinf ELSE build.ninf
    ELSE FloorDiv(c * ratio.num, ratio.den)

RECURSIVE Sum(_)
Sum(s) == IF s = <<>> THEN 0 ELSE Head(s) + Sum(Tail(s))

\* fullWidth: the terminal width less the borders and the padding (line 336)
FullWidth(n, padding, minPadding, termWidth) ==
    termWidth - (2 + n * (1 + padding * minPadding))

RECURSIVE ShrinkScan(_, _, _, _, _, _, _)
\* The classifying loop of the shrink case (lines 351-372) from column i
\* on.  st = [cols, ratio, unshrinkable, shrinkable]; pm is
\* MIN_PADDING*t.TableFormat.Padding.
ShrinkScan(headers, i, st, fullWidth, totalWidth, pm, build) ==
    IF i > Len(st.cols) THEN st
    ELSE LET c == st.cols[i]
             hw == StringWidth(headers[i])
             newSize == FloorMul(c, st.ratio, build)
             small == st.unshrinkable + c + pm
             pinned == st.unshrinkable + hw - c + pm
         IN  IF c * Len(st.cols) < fullWidth
             THEN ShrinkScan(headers, i + 1,
                    [st EXCEPT !.unshrinkable = small,
                               !.ratio = [num |-> fullWidth - small,
                                          den |-> totalWidth - small]],
                    fullWidth, totalWidth, pm, build)
             ELSE IF newSize < hw
             THEN ShrinkScan(headers, i + 1,
                    [st EXCEPT !.unshrinkable = pinned,
                               !.ratio = [num |-> fullWidth - pinned,
                                          den |-> totalWidth - pinned],
                               !.cols[i] = hw],
                    fullWidth, totalWidth, pm, build)
             ELSE ShrinkScan(headers, i + 1, [st EXCEPT !.shrinkable[i] = TRUE],
                    fullWidth, totalWidth, pm, build)

\* autoSize(headers, cols) on a terminal termWidth columns wide, with
\* padding = t.TableFormat.Padding and minPadding = MIN_PADDING
autoSize(headers, cs, padding, minPadding, termWidth, build) ==
    LET totalWidth == Sum(cs)
        fullWidth == FullWidth(Len(cs), padding, minPadding, termWidth)
        ratio == [num |-> fullWidth, den |-> totalWidth]
        st == ShrinkScan(headers, 1,
                [cols |-> cs, ratio |-> ratio, unshrinkable |-> 0,
                 shrinkable |-> [i \in 1..Len(cs) |-> FALSE]],
                fullWidth, totalWidth, padding * minPadding, build)
    IN  IF totalWidth <= fullWidth
        THEN [i \in 1..Len(cs) |-> FloorMul(cs[i], ratio, build)]
        ELSE [i \in 1..Len(cs) |->
                IF st.shrinkable[i] THEN FloorMul(st.cols[i], st.ratio, build)
                ELSE st.cols[i]]

-----------------------------------------------------------------------------
(* wrapCellData as a whole *)

RECURSIVE WrapRun(_, _, _, _)
WrapRun(tab, cs, st, call) ==
    IF st.pc = "panic" THEN st
    ELSE IF st.index > Len(tab.Data) THEN [st EXCEPT !.pc = "done"]
    ELSE WrapRun(tab, cs, WrapIter(tab, cs, st, call), call)

\* the loop from next := t.Data[0], index := 0 to its end
wrapCellData(tab, cs, call) ==
    WrapRun(tab, cs,
            [index |-> 0, next |-> tab.Data[1], arr |-> <<>>, pc |-> "loop"], call)

-----------------------------------------------------------------------------
(* Styles *)

Line(b, h, s, e) == [begin |-> b, hline |-> h, sep |-> s, end |-> e]
Row(b, s, e) == [begin |-> b, sep |-> s, end |-> e]
NoLine == Line(<<>>, <<>>, <<>>, <<>>)
NoRow == Row(<<>>, <<>>, <<>>)

\* the zero value of TableFormat: what a map lookup yields for a missing key
ZeroFormat ==
    [LineTop |-> NoLine, LineBelowHeader |-> NoLine, LineBetweenRows |-> NoLine,
     LineBottom |-> NoLine, HeaderRow |-> NoRow, DataRow |-> NoRow, Padding |-> 0]

\* the box-drawing glyphs of "border" are written by their code points
TableFormats ==
    [simple |->
        [LineTop |-> Line(<<>>, <<"-">>, <<SP, SP>>, <<>>),
         LineBelowHeader |-> Line(<<>>, <<"-">>, <<SP, SP>>, <<>>),
         LineBetweenRows |-> NoLine,
         LineBottom |-> Line(<<>>, <<"-">>, <<SP, SP>>, <<>>),
         HeaderRow |-> Row(<<>>, <<SP, SP>>, <<>>),
         DataRow |-> Row(<<>>, <<SP, SP>>, <<>>),
         Padding |-> 1],
     plain |->
        [LineTop |-> NoLine, LineBelowHeader |-> NoLine,
         LineBetweenRows |-> NoLine, LineBottom |-> NoLine,
         HeaderRow |-> Row(<<>>, <<SP, SP>>, <<>>),
         DataRow |-> Row(<<>>, <<SP, SP>>, <<>>),
         Padding |-> 1],
     grid |->
        [LineTop |-> Line(<<"+">>, <<"-">>, <<"+">>, <<"+">>),
         LineBelowHeader |-> Line(<<"+">>, <<"=">>, <<"+">>, <<"+">>),
         LineBetweenRows |-> Line(<<"+">>, <<"-">>, <<"+">>, <<"+">>),
         LineBottom |-> Line(<<"+">>, <<"-">>, <<"+">>, <<"+">>),
         HeaderRow |-> Row(<<"|">>, <<"|">>, <<"|">>),
         DataRow |-> Row(<<"|">>, <<"|">>, <<"|">>),
         Padding |-> 1],
     border |->
        [LineTop |-> Line(<<"U+250F">>, <<"U+2501">>, <<"U+2533">>, <<"U+2513">>),
         LineBelowHeader |-> Line(<<"U+2521">>, <<"U+2501">>, <<"U+2547">>, <<"U+2529">>),
         LineBetweenRows |-> Line(<<"U+251C">>, <<"U+2500">>, <<"U+253C">>, <<"U+2524">>),
         LineBottom |-> Line(<<"U+2514">>, <<"U+2500">>, <<"U+2534">>, <<"U+2518">>),
         HeaderRow |-> Row(<<"U+2503">>, <<"U+2503">>, <<"U+2503">>),
         DataRow |-> Row(<<"U+2502">>, <<"U+2502">>, <<"U+2502">>),
         Padding |-> 1]]

\* TableFormats[name]
FormatNamed(name) ==
    IF name \in DOMAIN TableFormats THEN TableFormats[name] ELSE ZeroFormat

-----------------------------------------------------------------------------
(* Building lines *)

RECURSIVE Repeat(_, _)
\* writeBuffer.Write(str, count): nothing when count <= 0
Repeat(str, count) == IF count <= 0 THEN <<>> ELSE str \o Repeat(str, count - 1)

RECURSIVE Join(_, _)
Join(cells, sep) ==
    IF cells = <<>> THEN <<>>
    ELSE IF Len(cells) = 1 THEN cells[1]
    ELSE cells[1] \o sep \o Join(Tail(cells), sep)

padRow(arr_, padding) ==
    [i \in 1..Len(arr_) |->
        Repeat(<<SP>>, padding) \o arr_[i] \o Repeat(<<SP>>, padding)]

padLeft(width, str) == Repeat(<<SP>>, width - StringWidth(str)) \o str

padRight(width, str) == str \o Repeat(<<SP>>, width - StringWidth(str))

\* math.Ceil(d / 2.0) is (d + 1) \div 2, also for d < 0
padCenter(width, str) ==
    LET b == Repeat(<<SP>>, (width - StringWidth(str) + 1) \div 2) \o str
    IN  b \o Repeat(<<SP>>, width - StringWidth(b))

\* getAlignFunc, applied
Pad(tab, width, str) ==
    IF tab.Align = "" \/ tab.Align = "right" THEN padLeft(width, str)
    ELSE IF tab.Align = "left" THEN padRight(width, str)
    ELSE padCenter(width, str)

buildLine(padded_widths, padding, l, minPadding) ==
    l.begin
    \o Join([i \in 1..Len(padded_widths) |-> Repeat(l.hline, padding[i] + minPadding)],
            l.sep)
    \o l.end

NilCell == <<SP, "n", "i", "l", SP>>

buildRow(tab, elements, padded_widths, d) ==
    d.begin
    \o Join([i \in 1..Len(padded_widths) |->
               IF Len(elements) < i \/ elements[i] = NilCell
               THEN Pad(tab, padded_widths[i], tab.EmptyVar)
               ELSE Pad(tab, padded_widths[i], elements[i])],
            d.sep)
    \o d.end

inSlice(a, list) == \E k \in 1..Len(list) : list[k] = a

-----------------------------------------------------------------------------
(* Render *)

Emitted(kind, row, text) == [kind |-> kind, row |-> row, text |-> text]

RECURSIVE DataLines(_, _, _, _, _)
\* Lines 278-285 from row k on: the row, then LineBetweenRows unless the
\* row is the last one or is flagged Continuous.
DataLines(tab, k, padded_widths, cs, minPadding) ==
    IF k > Len(tab.Data) THEN <<>>
    ELSE <<Emitted("row", k,
                   buildRow(tab, padRow(tab.Data[k].Elements, tab.TableFormat.Padding),
                            padded_widths, tab.TableFormat.DataRow))>>
         \o (IF k < Len(tab.Data) /\ ~tab.Data[k].Continuous
             THEN <<Emitted("between", k,
                            buildLine(padded_widths, cs, tab.TableFormat.LineBetweenRows,
                                      minPadding))>>
             ELSE <<>>)
         \o DataLines(tab, k + 1, padded_widths, cs, minPadding)

\* Lines 257-298: the lines of the table, each of them followed by "\n" in
\* the string returned.  kind names the statement that appended the line.
Lines(tab, cs, minPadding) ==
    LET padded_widths == [i \in 1..Len(cs) |->
                             AddInt(cs[i], minPadding * tab.TableFormat.Padding)]
    IN  (IF ~inSlice("top", tab.HideLines)
         THEN <<Emitted("top", 0,
                        buildLine(padded_widths, cs, tab.TableFormat.LineTop, minPadding))>>
         ELSE <<>>)
        \o <<Emitted("header", 0,
                     buildRow(tab, padRow(tab.Headers, tab.TableFormat.Padding),
                              padded_widths, tab.TableFormat.HeaderRow))>>
        \o (IF ~inSlice("belowheader", tab.HideLines)
            THEN <<Emitted("belowheader", 0,
                           buildLine(padded_widths, cs, tab.TableFormat.LineBelowHeader,
                                     minPadding))>>
            ELSE <<>>)
        \o DataLines(tab, 1, padded_widths, cs, minPadding)
        \o (IF ~inSlice("bottomLine", tab.HideLines)
            THEN <<Emitted("bottom", 0,
                           buildLine(padded_widths, cs, tab.TableFormat.LineBottom,
                                     minPadding))>>
            ELSE <<>>)

\* lines 216-218: without headers, the first row becomes the header
InferHeaders(tab) ==
    IF Len(tab.Headers) < 1
    THEN [tab EXCEPT !.Headers = tab.Data[1].Elements, !.Data = Tail(tab.Data)]
    ELSE tab

\* lines 222-224
UseFormat(tab, format) ==
    IF format.given THEN [tab EXCEPT !.TableFormat = FormatNamed(format.name)] ELSE tab

\* lines 231-238: make([]string, diff) holds diff empty labels, and the
\* headers are appended to them
PadHeaders(tab) ==
    LET diff == Len(tab.Data[1].Elements) - Len(tab.Headers)
    IN  IF Len(tab.Headers) < Len(tab.Data[1].Elements)
        THEN [tab EXCEPT !.Headers = [i \in 1..diff |-> <<>>] \o tab.Headers]
        ELSE tab

\* Render(format...) on the table tab with MIN_PADDING = minPadding, on a
\* terminal env = [termOk, termWidth, build]: the table as Render leaves
\* it and what the call comes to: the lines returned ("ok"), a panic, or
\* ("abort") a cell padded to a width near IntMax, which no memory holds.
Render(tab, format, minPadding, env) ==
    LET t2 == UseFormat(InferHeaders(tab), format)
        t3 == PadHeaders(t2)
        sized == autoSize(t3.Headers, getWidths(t3.Headers, t3.Data),
                          t3.TableFormat.Padding, minPadding, env.termWidth, env.build)
        wraps == t3.AutoSize \/ t3.WrapStrings
        wrapped == wrapCellData(t3, IF t3.AutoSize THEN sized ELSE <<>>, 1)
        t4 == IF wraps THEN [t3 EXCEPT !.Data = wrapped.arr] ELSE t3
        cs == IF t3.AutoSize THEN sized ELSE getWidths(t4.Headers, t4.Data)
    IN  IF Len(tab.Headers) < 1 /\ Len(tab.Data) < 1
        THEN [status |-> "panic", tab |-> tab, lines |-> <<>>]
        ELSE IF Len(t2.Data) < 1
        THEN [status |-> "panic", tab |-> t2, lines |-> <<>>]
        ELSE IF t3.AutoSize /\ ~env.termOk
        THEN [status |-> "panic", tab |-> t3, lines |-> <<>>]
        ELSE IF wraps /\ wrapped.pc = "panic"
        THEN [status |-> "panic", tab |-> t3, lines |-> <<>>]
        ELSE IF \E i \in 1..Len(cs) :
                   AddInt(cs[i], minPadding * t4.TableFormat.Padding) > IntMax \div 2
        THEN [status |-> "abort", tab |-> t4, lines |-> <<>>]
        ELSE [status |-> "ok", tab |-> t4, lines |-> Lines(t4, cs, minPadding)]

-----------------------------------------------------------------------------
(* Tables of the model *)

AllStrings(n) == UNION {[1..m -> Glyphs] : m \in 0..n}

Monotone(c) == \A j \in DOMAIN c : \A k \in DOMAIN c : j <= k => c[j] <= c[k]

\* the cells obtained by cutting the glyph sequence f at the offsets c
CutCell(f, c, k) ==
    SubSeq(f, (IF k = 1 THEN 0 ELSE c[k - 1]) + 1, IF k > Len(c) THEN Len(f) ELSE c[k])

NewRow(f, c, r, nc) ==
    [Elements |-> [i \in 1..nc |-> CutCell(f, c, (r - 1) * nc + i)],
     Continuous |-> FALSE, src |-> r, gen |-> 0]

\* every table of nr rows of nc cells holding, in all, the glyphs of f
TablesOf(f, nr, nc) ==
    {[r \in 1..nr |-> NewRow(f, c, r, nc)] :
        c \in {c \in [1..(nr * nc - 1) -> 0..Len(f)] : Monotone(c)}}

\* the widths autoSize hands to wrapCellData, one per column
Capacities(nc) == [1..nc -> 0..MaxCap] \cup {[i \in 1..nc |-> -1]}

Relabel(data) == [j \in 1..Len(data) |-> [data[j] EXCEPT !.src = j]]

-----------------------------------------------------------------------------
(* The wrapper, one loop iteration at a time *)

WrapInit ==
    /\ \E f \in AllStrings(MaxGlyphs), sh \in Shapes :
         \E d \in TablesOf(f, sh[1], sh[2]) :
            \/ \E m \in (-1)..MaxCap :
                  /\ t = [Data |-> d, MaxSize |-> m, AutoSize |-> FALSE]
                  /\ cols = <<>>
            \/ \E cs \in Capacities(sh[2]) :
                  /\ t = [Data |-> d, MaxSize |-> 30, AutoSize |-> TRUE]
                  /\ cols = cs
    /\ index = 0
    /\ next = t.Data[1]
    /\ arr = <<>>
    /\ pc = "loop"
    /\ pass = 1
    /\ args = <<>> /\ result = NoResult
    /\ tabs = <<>> /\ MIN_PADDING = 0 /\ out = <<>> /\ ops = 0

\* one pass through the body of the for loop (lines 450-489)
Iterate ==
    /\ pc = "loop"
    /\ index <= Len(t.Data)
    /\ LET st == WrapIter(t, cols, [index |-> index, next |-> next, arr |-> arr], pass)
       IN  /\ index' = st.index
           /\ next' = st.next
           /\ arr' = st.arr
           /\ pc' = st.pc
    /\ UNCHANGED <<t, cols, pass, callVars, renderVars>>

\* the loop condition fails: wrapCellData returns arr
Return ==
    /\ pc = "loop"
    /\ index > Len(t.Data)
    /\ pc' = "done"
    /\ UNCHANGED <<t, cols, index, next, arr, pass, callVars, renderVars>>

\* Render stores the rows returned in t.Data (lines 247 and 251); Render is
\* then called again on the same table, and wrapCellData starts over on
\* these rows with the same capacities
Again ==
    /\ pc = "done"
    /\ pass = 1
    /\ pass' = pass + 1
    /\ t' = [t EXCEPT !.Data = Relabel(arr)]
    /\ index' = 0
    /\ next' = Relabel(arr)[1]
    /\ arr' = <<>>
    /\ pc' = "loop"
    /\ UNCHANGED <<cols, callVars, renderVars>>

WrapNext == Iterate \/ Return \/ Again

SpecWrap == WrapInit /\ [][WrapNext]_vars

-----------------------------------------------------------------------------
(* getWidths, applied to the headers and rows of a table *)

RowsUpTo(n, cells) == UNION {[1..m -> cells] : m \in 0..n}

WidthsInit ==
    /\ \E hs \in RowsUpTo(MaxHeaders, AllStrings(MaxCellLen)) \ {<<>>},
          nr \in 1..MaxDataRows :
         \E es \in [1..nr -> RowsUpTo(MaxCells, AllStrings(MaxCellLen))] :
            args = [headers |-> hs,
                    data |-> [r \in 1..nr |->
                               [Elements |-> es[r], Continuous |-> FALSE,
                                src |-> r, gen |-> 0]]]
    /\ result = NoResult
    /\ t = <<>> /\ cols = <<>> /\ index = 0 /\ next = <<>> /\ arr = <<>>
    /\ pc = "call" /\ pass = 0
    /\ tabs = <<>> /\ MIN_PADDING = 0 /\ out = <<>> /\ ops = 0

GetWidthsCall ==
    /\ pc = "call"
    /\ ~result.done
    /\ result' = [done |-> TRUE, panic |-> FALSE,
                  value |-> getWidths(args.headers, args.data)]
    /\ UNCHANGED <<wrapVars, args, renderVars>>

SpecWidths == WidthsInit /\ [][GetWidthsCall]_vars

-----------------------------------------------------------------------------
(* autoSize, applied to natural widths and a terminal *)

HeaderLabels == {<<>>, <<"a">>, <<Wide>>, <<"a", Wide>>}

\* natural widths as getWidths returns them for columns that have a cell:
\* at least the width of the header
NaturalWidths(hs) ==
    {cs \in [1..Len(hs) -> 0..MaxNatural] :
        \A i \in 1..Len(hs) : cs[i] >= StringWidth(hs[i])}

AutoInit ==
    /\ \E n \in 1..MaxAutoCols :
         \E hs \in [1..n -> HeaderLabels] :
            \E cs \in NaturalWidths(hs), pad \in 0..1,
               mp \in {MinPaddingInitial, MinPaddingAutoSize},
               tw \in 0..MaxTerm, ok \in BOOLEAN, b \in Builds :
               /\ (~ok => tw = 0)
               /\ args = [headers |-> hs, cols |-> cs, padding |-> pad,
                          minPadding |-> mp, termOk |-> ok, termWidth |-> tw,
                          build |-> b]
    /\ result = NoResult
    /\ t = <<>> /\ cols = <<>> /\ index = 0 /\ next = <<>> /\ arr = <<>>
    /\ pc = "call" /\ pass = 0
    /\ tabs = <<>> /\ MIN_PADDING = 0 /\ out = <<>> /\ ops = 0

\* termbox.Init failing makes autoSize panic (line 331)
AutoSizeCall ==
    /\ pc = "call"
    /\ ~result.done
    /\ result' = IF args.termOk
                 THEN [done |-> TRUE, panic |-> FALSE,
                       value |-> autoSize(args.headers, args.cols, args.padding,
                                          args.minPadding, args.termWidth,
                                          args.build)]
                 ELSE [done |-> TRUE, panic |-> TRUE, value |-> <<>>]
    /\ UNCHANGED <<wrapVars, args, renderVars>>

SpecAuto == AutoInit /\ [][AutoSizeCall]_vars

-----------------------------------------------------------------------------
(* A program with two tables *)

Tables == {"A", "B"}

StringRows(rows) ==
    [r \in 1..Len(rows) |->
        [Elements |-> rows[r], Continuous |-> FALSE, src |-> r, gen |-> 0]]

\* Create(data) for a [][]string: one row per slice, MaxSize 30
Create(rows) ==
    [Data |-> StringRows(rows), Headers |-> <<>>, TableFormat |-> ZeroFormat,
     Align |-> "", EmptyVar |-> <<>>, HideLines |-> <<>>, MaxSize |-> 30,
     WrapStrings |-> FALSE, AutoSize |-> FALSE]

A3 == <<"a", "a", "a">>

\* the data of table A
SampleData ==
    { <<>>,
      << <<A3>> >>,
      << <<<<"a">>>>, <<A3>>, <<<<Wide>>>> >>,
      << <<<<"a">>>>, <<<<"a", SP, "a">>, <<"a">>>> >>,
      << <<<<"a">>, <<Wide>>>>, <<<<"a", NL, "a">>, A3>>, <<<<"a">>>> >> }

NoTerminal ==
    [termOk |-> FALSE, termWidth |-> 0,
     build |-> [nan |-> IntMin, pinf |-> IntMin, ninf |-> IntMin]]

RenderEnvs ==
    {NoTerminal}
    \cup {[termOk |-> TRUE, termWidth |-> w, build |-> b] :
             w \in {MaxTerm - 6, MaxTerm}, b \in Builds}

RenderInit ==
    /\ \E d \in SampleData :
         tabs = [x \in Tables |-> IF x = "A" THEN Create(d) ELSE Create(<< <<A3>> >>)]
    /\ MIN_PADDING = MinPaddingInitial
    /\ out = [x \in Tables |-> [status |-> "none", lines |-> <<>>]]
    /\ ops = [n |-> 0, own |-> [x \in Tables |-> MinPaddingInitial],
              renders |-> [x \in Tables |-> 0]]
    /\ t = <<>> /\ cols = <<>> /\ index = 0 /\ next = <<>> /\ arr = <<>>
    /\ pc = "program" /\ pass = 0
    /\ args = <<>> /\ result = NoResult

\* a panic that nothing recovers ends the program
Running ==
    /\ pc = "program"
    /\ ops.n < MaxOps
    /\ \A x \in Tables : out[x].status \in {"none", "ok"}

Counted == [ops EXCEPT !.n = ops.n + 1]

SetHeaders(x, headers) ==
    /\ Running
    /\ tabs' = [tabs EXCEPT ![x].Headers = headers]
    /\ ops' = Counted
    /\ UNCHANGED <<MIN_PADDING, out, wrapVars, callVars>>

SetAlign(x, align) ==
    /\ Running
    /\ tabs' = [tabs EXCEPT ![x].Align = align]
    /\ ops' = Counted
    /\ UNCHANGED <<MIN_PADDING, out, wrapVars, callVars>>

SetEmptyString(x, empty) ==
    /\ Running
    /\ tabs' = [tabs EXCEPT ![x].EmptyVar = empty \o <<SP>>]
    /\ ops' = Counted
    /\ UNCHANGED <<MIN_PADDING, out, wrapVars, callVars>>

SetHideLines(x, hide) ==
    /\ Running
    /\ tabs' = [tabs EXCEPT ![x].HideLines = hide]
    /\ ops' = Counted
    /\ UNCHANGED <<MIN_PADDING, out, wrapVars, callVars>>

SetWrapStrings(x, wrap) ==
    /\ Running
    /\ tabs' = [tabs EXCEPT ![x].WrapStrings = wrap]
    /\ ops' = Counted
    /\ UNCHANGED <<MIN_PADDING, out, wrapVars, callVars>>

\* ops.own[x] is what MIN_PADDING would be had only the calls on x run;
\* ops.renders[x] counts the calls of Render on x
SetAutoSize(x, autosize) ==
    /\ Running
    /\ MIN_PADDING' = MinPaddingAutoSize
    /\ tabs' = [tabs EXCEPT ![x].AutoSize = autosize]
    /\ ops' = [Counted EXCEPT !.own[x] = MinPaddingAutoSize]
    /\ UNCHANGED <<out, wrapVars, callVars>>

SetMaxCellSize(x, max) ==
    /\ Running
    /\ tabs' = [tabs EXCEPT ![x].MaxSize = max]
    /\ ops' = Counted
    /\ UNCHANGED <<MIN_PADDING, out, wrapVars, callVars>>

\* t.Render(format...): the table is left as Render mutates it.  The
\* terminal is only looked at under AutoSize.
RenderCall(x, format, env) ==
    /\ Running
    /\ (~tabs[x].AutoSize => env = NoTerminal)
    /\ LET r == Render(tabs[x], format, MIN_PADDING, env)
       IN  /\ tabs' = [tabs EXCEPT ![x] = r.tab]
           /\ out' = [out EXCEPT ![x] = [status |-> r.status, lines |-> r.lines]]
    /\ ops' = [Counted EXCEPT !.renders[x] = ops.renders[x] + 1]
    /\ UNCHANGED <<MIN_PADDING, wrapVars, callVars>>

Formats ==
    {[given |-> FALSE, name |-> ""]}
    \cup {[given |-> TRUE, name |-> n] : n \in {"grid", "nosuch"}}

RenderNext ==
    \E x \in Tables :
        \/ \E b \in BOOLEAN : SetAutoSize(x, b)
        \/ \E b \in BOOLEAN : SetWrapStrings(x, b)
        \/ \E m \in {0, MaxCap} : SetMaxCellSize(x, m)
        \/ \E a \in {"left", "center"} : SetAlign(x, a)
        \/ SetHideLines(x, <<"top">>)
        \/ SetEmptyString(x, <<"-">>)
        \/ \E hs \in {<<<<"a">>>>, <<<<Wide>>, <<"a">>>>} : SetHeaders(x, hs)
        \/ \E f \in Formats, env \in RenderEnvs : RenderCall(x, f, env)

SpecRender == RenderInit /\ [][RenderNext]_vars

-----------------------------------------------------------------------------
(* Claims about getWidths and autoSize *)

Max(S) == CHOOSE m \in S : \A x \in S : x <= m

\* C5: getWidths returns for each column the largest display width among
\* the header cell and the cells the rows have in that column; a column in
\* which no row has a cell gets the width of its header.
C5_MaxOfHeaderAndCells ==
    (pc = "call" /\ result.done) =>
        /\ Len(result.value) = Len(args.headers)
        /\ \A i \in 1..Len(args.headers) :
             result.value[i] =
                Max({StringWidth(args.headers[i])} \cup
                    {StringWidth(args.data[k].Elements[i]) :
                        k \in {k \in 1..Len(args.data) :
                                  Len(args.data[k].Elements) >= i}})

\* no width returned comes from converting a NaN or an infinite float64
Finite(ws) == \A i \in 1..Len(ws) : ws[i] > IntMin /\ ws[i] < IntMax

\* C4: every width autoSize returns is at least the display width of the
\* header of its column, and so is not negative.  (Stated for the calls
\* whose conversions to int are all defined by the language.)
C4_HeaderFloor ==
    (pc = "call" /\ result.done /\ ~result.panic /\ Finite(result.value)) =>
        \A i \in 1..Len(args.headers) :
            /\ result.value[i] >= StringWidth(args.headers[i])
            /\ result.value[i] >= 0

-----------------------------------------------------------------------------
(* Claims about Render *)

\* the row after row k of data exists and was allocated by wrapCellData
\* for the remainders of the row it follows
ContinuationFollows(data, k) == k < Len(data) /\ data[k + 1].gen > 0

SeparatorRule(x) ==
    LET ls == out[x].lines
    IN  \A p \in 1..Len(ls) :
           ls[p].kind = "row" =>
              ((p < Len(ls) /\ ls[p + 1].kind = "between")
                 <=> (ls[p].row < Len(tabs[x].Data)
                      /\ ~ContinuationFollows(tabs[x].Data, ls[p].row)))

\* C6: in what Render returns, a data row is followed by a separator line
\* exactly when it is not the last row and the next row is not a
\* continuation row; no separator stands between a wrapped row and its
\* continuation rows.
C6_SeparatorRule == \A x \in Tables : out[x].status = "ok" => SeparatorRule(x)

\* the same for the first Render of a table only
FirstRenderSeparatorRule ==
    \A x \in Tables : (out[x].status = "ok" /\ ops.renders[x] = 1) => SeparatorRule(x)

\* Render has no rows to show: no headers and at most the row that becomes
\* the header, or headers and no row
NoData(tab) ==
    \/ Len(tab.Headers) < 1 /\ Len(tab.Data) <= 1
    \/ Len(tab.Headers) >= 1 /\ Len(tab.Data) < 1

UnknownStyle(format) == format.given /\ format.name \notin DOMAIN TableFormats

\* C7: a Render called without data rows, or with the name of a style that
\* is not registered, comes to an error returned to the caller: it neither
\* panics nor returns a table.
C7_FatalIsError ==
    [][\A x \in Tables, f \in Formats, e \in RenderEnvs :
          (RenderCall(x, f, e) /\ (NoData(tabs[x]) \/ UnknownStyle(f)))
             => out'[x].status = "error"]_vars

\* C8: when the header has fewer labels than the first row has cells,
\* Render keeps the labels in their columns and adds empty labels after
\* them, up to the number of cells.
C8_HeaderPaddedRight ==
    [][\A x \in Tables, f \in Formats, e \in RenderEnvs :
          LET labels == InferHeaders(tabs[x]).Headers
              cells == Len(InferHeaders(tabs[x]).Data[1].Elements)
          IN  (RenderCall(x, f, e) /\ out'[x].status = "ok" /\ Len(labels) < cells)
                 => tabs'[x].Headers =
                       labels \o [i \in 1..(cells - Len(labels)) |-> <<>>]]_vars

\* C10: what Render returns for a table is what it returns when no call
\* was ever made on another table: setters called on B leave the output
\* of A as it is.
C10_NoSharedState ==
    [][\A x \in Tables, f \in Formats, e \in RenderEnvs :
          RenderCall(x, f, e)
             => /\ out'[x].status = Render(tabs[x], f, ops.own[x], e).status
                /\ out'[x].lines = Render(tabs[x], f, ops.own[x], e).lines]_vars

-----------------------------------------------------------------------------
(* Claims about wrapCellData *)

Capacity(i) == MaxColWidth(t, cols, i)

Fits(row) == \A i \in 1..Len(row.Elements) : StringWidth(row.Elements[i]) <= Capacity(i)

\* C1: every cell of every row wrapCellData returns is at most as wide as
\* the capacity of its column (t.MaxSize, or cols[i] under AutoSize).
C1_CellsFit == pc = "done" => \A j \in 1..Len(arr) : Fits(arr[j])

\* a call returned after splitting a cell that was wider than its column
C1_Witness ==
    /\ pc = "done"
    /\ Len(arr) > Len(t.Data)
    /\ \E j \in 1..Len(t.Data) : ~Fits(t.Data[j])

RECURSIVE Concat(_, _, _)
\* the cells of column i of the rows j..Len(rows) that stem from row s, joined
Concat(rows, s, i) ==
    IF rows = <<>> THEN <<>>
    ELSE (IF Head(rows).src = s THEN Head(rows).Elements[i] ELSE <<>>)
         \o Concat(Tail(rows), s, i)

StripNL(str) == SelectSeq(str, LAMBDA g : g # NL)

\* C2: the rows returned are, in input order, one group per input row:
\* the input row itself (holding the heads), then the rows allocated for
\* its remainders; the cells of a group, joined, are the input cell less
\* the newlines it was split at.
C2_OrderKept ==
    pc = "done" =>
        /\ \A j \in 1..(Len(arr) - 1) : arr[j].src <= arr[j + 1].src
        /\ \A s \in 1..Len(t.Data) :
             \E j \in 1..Len(arr) :
                /\ arr[j].src = s
                /\ arr[j].gen < pass
                /\ (j > 1 => arr[j - 1].src < s)
                /\ \A k \in 1..Len(arr) : (k # j /\ arr[k].src = s) => arr[k].gen = pass
        /\ \A j \in 1..Len(arr) : arr[j].src \in 1..Len(t.Data)
        /\ \A s \in 1..Len(t.Data) : \A i \in 1..Len(t.Data[s].Elements) :
             StripNL(Concat(arr, s, i)) = StripNL(t.Data[s].Elements[i])

\* a table of two rows whose first row was split was wrapped
C2_Witness ==
    /\ pc = "done"
    /\ pass = 1
    /\ Len(t.Data) = 2
    /\ Len(arr) > 2
    /\ arr[2].src = 1

Proj(rows) == [j \in 1..Len(rows) |->
                 [Elements |-> rows[j].Elements, Continuous |-> rows[j].Continuous]]

\* C3: wrapping the rows a first call returned, with the same capacities,
\* returns the same rows.
C3_Idempotent == (pc = "done" /\ pass = 2) => Proj(arr) = Proj(t.Data)

NoNegativeCapacity ==
    IF t.AutoSize THEN \A i \in 1..Len(cols) : cols[i] >= 0 ELSE t.MaxSize >= 0

\* C9: wrapCellData ends by returning, whatever the rows and whatever the
\* capacities from 0 on: the loop does not panic.
C9_ReturnsNormally == NoNegativeCapacity => pc # "panic"

====
